---------------------------- MODULE Spec2Model ----------------------------
(***************************************************************************)
(* Protocol conformance records of lib/AST/ProtocolConformance.cpp:        *)
(* the dispatch facade, the write-once witness table of a normal           *)
(* conformance, and the lazily cached specialization of type witnesses.    *)
(*                                                                         *)
(* assert(c) is modelled as in a build with assertions enabled: when c is  *)
(* false the process aborts (aborted = TRUE) and nothing runs afterwards.  *)
(***************************************************************************)
EXTENDS Integers, Sequences, FiniteSets, TLC

(***************************************************************************)
(* Bounds of the model.                                                    *)
(***************************************************************************)
\* longest chain of enclosing types of a conforming type
MaxNest == 3
\* number of concurrent readers of one specialized conformance
NumReaders == 2
\* arrays the arena hands out through AllocateCopy
MaxAlloc == 6

(***************************************************************************)
(* The conformance objects of the model and their kinds.                   *)
(*   N  : normal conformance of a generic type to protocol P               *)
(*   S1 : specialization of N,  S2 : specialization of S1                  *)
(***************************************************************************)
Kinds == {"Normal", "Specialized", "Inherited"}

Confs == {"N", "S1", "S2"}

Specializeds == {"S1", "S2"}

KindOf(conf) ==
  CASE conf = "N" -> "Normal"
    [] conf \in Specializeds -> "Specialized"

\* SpecializedProtocolConformance::GenericConformance
GenericConformance(conf) ==
  CASE conf = "S1" -> "N"
    [] conf = "S2" -> "S1"

(***************************************************************************)
(* CONFORMANCE_SUBCLASS_DISPATCH: the class each case casts to, and the    *)
(* class each case's static_assert names.                                  *)
(***************************************************************************)
Methods == {"getProtocol", "getDeclContext", "getState", "getTypeWitness",
            "getWitness", "getInheritedConformances", "usesDefaultDefinition"}

DispatchTarget(kind) ==
  CASE kind = "Normal" -> "Normal"
    [] kind = "Specialized" -> "Specialized"
    [] kind = "Inherited" -> "Inherited"

StaticAssertClass(kind) ==
  CASE kind = "Normal" -> "Normal"
    [] kind = "Specialized" -> "Inherited"
    [] kind = "Inherited" -> "Inherited"

(***************************************************************************)
(* Declarations: protocol P is the protocol of N; A and B are its          *)
(* associated types, r1 its value requirement.  X and rx belong to another *)
(* protocol.                                                               *)
(***************************************************************************)
AssocTypes == {"A", "B", "X"}

Requirements == {"r1", "rx"}

ValueDecls == Requirements \cup AssocTypes

DeclContextOf(decl) == IF decl \in {"X", "rx"} THEN "Other" ELSE "P"

GetProtocol(conf) == "P"

IsaAssociatedTypeDecl(decl) == decl \in AssocTypes

Witnesses == {"w1", "w2"}

(***************************************************************************)
(* Types are uniqued, so identity of a type is equality of its structure:  *)
(* a type is the sequence of its constructors, ending in a leaf.  The      *)
(* leaves T, U and V are abstract parameters.  NullType is the null Type.  *)
(***************************************************************************)
Params == {"T", "U", "V"}

NullType == << >>

\* archetype of a witness -> the protocols it is required to conform to
ConformsTo(archetype) ==
  CASE archetype = "aNone" -> << >>
    [] archetype = "aQ" -> <<"Q">>
    [] archetype = "aQR" -> <<"Q", "R">>

Protos == {"Q", "R"}

NullConformance == [Type |-> NullType, Proto |-> "null"]

EmptyArray == [Data |-> 0, Elems |-> << >>]

\* the substitutions the conformance checker may record for A and B
SubstitutionInputs ==
  { [Archetype |-> "aQ", Replacement |-> <<"Int">>,
     Conformance |-> [Data |-> 0, Elems |-> << [Type |-> <<"Int">>, Proto |-> "Q"] >>]],
    [Archetype |-> "aQR", Replacement |-> <<"Arr", "T">>,
     Conformance |-> [Data |-> 0, Elems |-> << [Type |-> <<"Arr", "T">>, Proto |-> "Q"],
                                               [Type |-> <<"Arr", "T">>, Proto |-> "R"] >>]],
    [Archetype |-> "aNone", Replacement |-> <<"U">>, Conformance |-> EmptyArray] }

\* the substitution lists a specialization of N may carry
SubstitutionLists ==
  { << [Archetype |-> "T", Replacement |-> <<"Str">>],
       [Archetype |-> "U", Replacement |-> <<"Int">>] >>,
    << [Archetype |-> "T", Replacement |-> <<"Arr", "V">>] >> }

\* the substitution lists a specialization of S1 may carry
OuterSubstitutionLists ==
  { << [Archetype |-> "V", Replacement |-> <<"Int">>] >> }

\* the (type, protocol) pairs the module may answer "does not conform" for
OracleRefusals ==
  { { << <<"Arr", "Str">>, "R" >> } }

\* what a dereference of the null type may do: crash, or carry on
UBOutcomes == {"proceeds", "crash"}

\* one outcome for the substitution engine and one for the lookups
UBChoices == [{"subst", "lookup"} -> UBOutcomes]

EmptyMap == [x \in {} |-> x]

VARIABLES
  State,                \* NormalProtocolConformance::State of N
  TypeWitnesses,        \* conf -> (associated type -> Substitution)
  Mapping,              \* NormalProtocolConformance::Mapping of N
  GenericSubstitutions, \* specialized conf -> its substitution list
  Refusals,             \* what the module's lookupConformance refuses
  nextAlloc,            \* arrays allocated from the ASTContext so far
  aborted,              \* an assertion failed (or the process crashed)
  last,                 \* the most recent call and what it returned
  typeSetOk,            \* history: successful setTypeWitness calls per key
  valueSetOk,           \* history: successful setWitness calls per key
  passed,               \* history: what the first successful setter was given
  first,                \* history: what the first query of a key returned
  hKind, hType, q,      \* a handle under query, and the last query on it
  pc, loc, writes       \* concurrent readers of S1

vars == <<State, TypeWitnesses, Mapping, GenericSubstitutions, Refusals,
          nextAlloc, aborted, last, typeSetOk, valueSetOk, passed, first, hKind,
          hType, q, pc, loc, writes>>

(***************************************************************************)
(* Collaborators: the substitution engine, the module's conformance        *)
(* lookup, the arena, and the storage of the witness maps.                 *)
(***************************************************************************)
\* Type::subst: replaces the abstract parameters of ty that map binds; a
\* parameter that map does not bind is kept when ignoreMissing, and makes the
\* result the null type otherwise
RECURSIVE SubstType(_, _, _)
SubstType(ty, map, ignoreMissing) ==
  IF Len(ty) = 1
  THEN IF ty[1] \in Params
       THEN IF ty[1] \in DOMAIN map THEN map[ty[1]]
            ELSE IF ignoreMissing THEN ty ELSE NullType
       ELSE ty
  ELSE LET inner == SubstType(Tail(ty), map, ignoreMissing)
       IN IF inner = NullType THEN NullType ELSE <<Head(ty)>> \o inner

\* subst called on the null type dereferences a null pointer
SubstCrashes(ty, ub) == ty = NullType /\ ub["subst"] = "crash"

Subst(ty, map, ignoreMissing) ==
  IF ty = NullType THEN NullType ELSE SubstType(ty, map, ignoreMissing)

\* Module::lookupConformance: (kind, conformance).  Looking up the null type
\* dereferences a null pointer: any outcome ub names may follow
LookupConformance(type, proto, ub) ==
  IF type = NullType
  THEN [Int |-> IF ub["lookup"] = "proceeds" THEN "Conforms" ELSE "crash",
        Pointer |-> NullConformance]
  ELSE IF <<type, proto>> \in Refusals
       THEN [Int |-> "DoesNotConform", Pointer |-> NullConformance]
       ELSE [Int |-> "Conforms", Pointer |-> [Type |-> type, Proto |-> proto]]

\* ASTContext::AllocateCopy: a fresh array of the arena holding the elements
AllocateCopy(conformances, alloc) ==
  IF conformances = << >> THEN EmptyArray
  ELSE [Data |-> alloc + 1, Elems |-> conformances]

AllocAfter(conformances, alloc) ==
  IF conformances = << >> THEN alloc ELSE alloc + 1

\* a reference to the entry a witness map holds for a key; the entry of a key
\* keeps its place for the lifetime of the conformance
SlotRef(conf, key) == [Conf |-> conf, Key |-> key]

NoRef == [Conf |-> "null", Key |-> "null"]

NoSubstitution ==
  [Archetype |-> "null", Replacement |-> NullType, Conformance |-> EmptyArray]

\* map[key] = value
MapPut(map, key, value) ==
  [x \in (DOMAIN map) \cup {key} |-> IF x = key THEN value ELSE map[x]]

StoreThrough(tw, conf, assocType, value) ==
  [tw EXCEPT ![conf] = MapPut(tw[conf], assocType, value),
             !["N"] = MapPut(tw["N"], assocType, value)]

StoreAlone(tw, conf, assocType, value) ==
  [tw EXCEPT ![conf] = MapPut(EmptyMap, assocType, value)]

\* TypeWitnesses[assocType] = value, in the maps tw of all conformances
Store(tw, conf, assocType, value) ==
  [tw EXCEPT ![conf] = MapPut(tw[conf], assocType, value)]

Deref(tw, ref) == tw[ref.Conf][ref.Key]

(***************************************************************************)
(* NormalProtocolConformance: the write-once witness table.                *)
(***************************************************************************)
IsComplete == State = "Complete"

SetTypeWitnessAssertsNoComplete(assocType) ==
  /\ GetProtocol("N") = DeclContextOf(assocType)
  /\ assocType \notin DOMAIN TypeWitnesses["N"]

SetTypeWitnessAssertsNoCount(assocType) ==
  /\ GetProtocol("N") = DeclContextOf(assocType)
  /\ ~IsComplete

SetTypeWitnessAssertsNoProtocol(assocType) ==
  /\ assocType \notin DOMAIN TypeWitnesses["N"]
  /\ ~IsComplete

\* the three assertions of setTypeWitness
SetTypeWitnessAsserts(assocType) ==
  /\ GetProtocol("N") = DeclContextOf(assocType)
  /\ assocType \notin DOMAIN TypeWitnesses["N"]
  /\ ~IsComplete

SetWitnessAssertsNoCount(requirement) ==
  /\ ~IsaAssociatedTypeDecl(requirement)
  /\ GetProtocol("N") = DeclContextOf(requirement)
  /\ ~IsComplete

SetWitnessAssertsNoIsa(requirement) ==
  /\ GetProtocol("N") = DeclContextOf(requirement)
  /\ requirement \notin DOMAIN Mapping
  /\ ~IsComplete

SetWitnessAssertsNoComplete(requirement) ==
  /\ ~IsaAssociatedTypeDecl(requirement)
  /\ GetProtocol("N") = DeclContextOf(requirement)
  /\ requirement \notin DOMAIN Mapping

\* the four assertions of setWitness
SetWitnessAsserts(requirement) ==
  /\ ~IsaAssociatedTypeDecl(requirement)
  /\ GetProtocol("N") = DeclContextOf(requirement)
  /\ requirement \notin DOMAIN Mapping
  /\ ~IsComplete

Call(op, conf, key, res) ==
  [op |-> op, conf |-> conf, key |-> key, res |-> res, path |-> "none",
   ret |-> NoRef, gen |-> NoRef, sub |-> NoSubstitution, wit |-> "null",
   calls |-> 0, used |-> {}, queries |-> 0]

NoCall == Call("none", "null", "null", "ok")

\* no setter call has succeeded yet
NothingPassed ==
  [type |-> [a \in AssocTypes |-> NoSubstitution],
   value |-> [d \in ValueDecls |-> "null"]]

SetTypeWitness(assocType, substitution) ==
  /\ ~aborted
  /\ IF SetTypeWitnessAsserts(assocType)
     THEN /\ TypeWitnesses' = Store(TypeWitnesses, "N", assocType, substitution)
          /\ typeSetOk' = [typeSetOk EXCEPT ![assocType] = @ + 1]
          /\ passed' = IF passed.type[assocType] # NoSubstitution THEN passed
                       ELSE [passed EXCEPT !.type[assocType] = substitution]
          /\ last' = [Call("setTypeWitness", "N", assocType, "ok")
                        EXCEPT !.sub = substitution]
          /\ UNCHANGED aborted
     ELSE /\ aborted' = TRUE
          /\ last' = [Call("setTypeWitness", "N", assocType, "abort")
                        EXCEPT !.sub = substitution]
          /\ UNCHANGED <<TypeWitnesses, typeSetOk, passed>>
  /\ UNCHANGED <<State, Mapping, GenericSubstitutions, Refusals, nextAlloc,
                 valueSetOk, first, hKind, hType, q, pc, loc, writes>>

SetWitness(requirement, witness) ==
  /\ ~aborted
  /\ IF SetWitnessAsserts(requirement)
     THEN /\ Mapping' = MapPut(Mapping, requirement, witness)
          /\ valueSetOk' = [valueSetOk EXCEPT ![requirement] = @ + 1]
          /\ passed' = IF passed.value[requirement] # "null" THEN passed
                       ELSE [passed EXCEPT !.value[requirement] = witness]
          /\ last' = [Call("setWitness", "N", requirement, "ok")
                        EXCEPT !.wit = witness]
          /\ UNCHANGED aborted
     ELSE /\ aborted' = TRUE
          /\ last' = [Call("setWitness", "N", requirement, "abort")
                        EXCEPT !.wit = witness]
          /\ UNCHANGED <<Mapping, valueSetOk, passed>>
  /\ UNCHANGED <<State, TypeWitnesses, GenericSubstitutions, Refusals,
                 nextAlloc, typeSetOk, first, hKind, hType, q, pc, loc, writes>>

\* the conformance checker marks N complete
MarkComplete ==
  /\ ~aborted
  /\ State = "Incomplete"
  /\ State' = "Complete"
  /\ last' = Call("markComplete", "N", "null", "ok")
  /\ UNCHANGED <<TypeWitnesses, Mapping, GenericSubstitutions, Refusals,
                 nextAlloc, aborted, typeSetOk, valueSetOk, passed, first, hKind,
                 hType, q, pc, loc, writes>>

(***************************************************************************)
(* SpecializedProtocolConformance::getTypeWitness.                         *)
(* A query is computed on the maps tw of all conformances and the arena    *)
(* counter alloc, and yields the maps and the counter it leaves behind.    *)
(***************************************************************************)
\* used: the collaborators this invocation itself consulted; queries: the
\* invocations of getTypeWitness made, this one included
Result(ok, path, ret, gen, tw, alloc, calls) ==
  [ok |-> ok, path |-> path, ret |-> ret, gen |-> gen, tw |-> tw,
   alloc |-> alloc, calls |-> calls, used |-> {}, queries |-> 1]

\* a result of an invocation that made the query g of the generic conformance
Consulting(r, g, used) == [r EXCEPT !.used = used, !.queries = 1 + g.queries]

\* substitutionMap[substitution.Archetype] = substitution.Replacement, in order
RECURSIVE BuildMapFrom(_, _)
BuildMapFrom(list, map) ==
  IF list = << >> THEN map
  ELSE BuildMapFrom(Tail(list),
                    MapPut(map, Head(list).Archetype, Head(list).Replacement))

BuildSubstitutionMap(conf) == BuildMapFrom(GenericSubstitutions[conf], EmptyMap)

ConformsAssertDropped(conforms) == TRUE

\* assert(conforms.getInt() == ConformanceKind::Conforms)
ConformsAssert(conforms) == conforms.Int = "Conforms"

RECURSIVE GatherReversed(_, _, _, _, _)
GatherReversed(protos, specializedType, ub, conformances, calls) ==
  IF protos = << >>
  THEN [ok |-> TRUE, conformances |-> conformances, calls |-> calls]
  ELSE LET conforms == LookupConformance(specializedType, Head(protos), ub)
       IN IF ~ConformsAssert(conforms)
          THEN [ok |-> FALSE, conformances |-> conformances, calls |-> calls + 1]
          ELSE GatherReversed(Tail(protos), specializedType, ub,
                              <<conforms.Pointer>> \o conformances, calls + 1)

\* the loop over archetype->getConformsTo(): one lookup and one push_back per
\* protocol, in order; calls counts the lookups made
RECURSIVE Gather(_, _, _, _, _)
Gather(protos, specializedType, ub, conformances, calls) ==
  IF protos = << >>
  THEN [ok |-> TRUE, conformances |-> conformances, calls |-> calls]
  ELSE LET conforms == LookupConformance(specializedType, Head(protos), ub)
       IN IF ~ConformsAssert(conforms)
          THEN [ok |-> FALSE, conformances |-> conformances, calls |-> calls + 1]
          ELSE Gather(Tail(protos), specializedType, ub,
                      Append(conformances, conforms.Pointer), calls + 1)

\* the entry the fast path stores: TypeWitnesses[assocType] = genericWitness
FastPathEntry(genericWitness, specializedType) == genericWitness

FastPathReturnGeneric(conf, assocType, genericRef) == genericRef

\* what the fast path returns: TypeWitnesses[assocType]
FastPathReturn(conf, assocType, genericRef) == SlotRef(conf, assocType)

\* the entry the slow path stores
SlowPathEntry(archetype, specializedType, conformances, alloc) ==
  [Archetype |-> archetype, Replacement |-> specializedType,
   Conformance |-> AllocateCopy(conformances, alloc)]

IsKnownNever(tw, conf, assocType) == FALSE

\* the cache check at the head of getTypeWitness
IsKnown(tw, conf, assocType) == assocType \in DOMAIN tw[conf]

\* NormalProtocolConformance::getTypeWitness: a lookup that asserts the key
NormalGetTypeWitness(conf, assocType, tw, alloc) ==
  IF assocType \in DOMAIN tw[conf]
  THEN Result(TRUE, "normal", SlotRef(conf, assocType), NoRef, tw, alloc, 0)
  ELSE Result(FALSE, "normal", NoRef, NoRef, tw, alloc, 0)

UnchangedNever(specializedType, genericWitness) == FALSE

\* specializedType.getPointer() == genericWitness.Replacement.getPointer()
Unchanged(specializedType, genericWitness) ==
  specializedType = genericWitness.Replacement

RECURSIVE GetTypeWitness(_, _, _, _, _)
RECURSIVE SpecializedGetTypeWitness(_, _, _, _, _)

FetchGenericWitnessTwice(conf, assocType, tw, alloc, ub) ==
  LET g1 == GetTypeWitness(GenericConformance(conf), assocType, tw, alloc, ub)
      g2 == GetTypeWitness(GenericConformance(conf), assocType, g1.tw,
                           g1.alloc, ub)
  IN IF ~g1.ok THEN g1 ELSE [g2 EXCEPT !.queries = g1.queries + g2.queries]

\* GenericConformance->getTypeWitness(assocType, resolver)
FetchGenericWitness(conf, assocType, tw, alloc, ub) ==
  GetTypeWitness(GenericConformance(conf), assocType, tw, alloc, ub)

SpecializedGetTypeWitness(conf, assocType, tw, alloc, ub) ==
  IF IsKnown(tw, conf, assocType)
  THEN Result(TRUE, "hit", SlotRef(conf, assocType), NoRef, tw, alloc, 0)
  ELSE
    LET substitutionMap == BuildSubstitutionMap(conf)
        g == FetchGenericWitness(conf, assocType, tw, alloc, ub)
    IN IF ~g.ok
       THEN Consulting(Result(FALSE, "generic", NoRef, g.ret, g.tw, g.alloc,
                              g.calls),
                       g, {"generic"})
       ELSE IF SubstCrashes(Deref(g.tw, g.ret).Replacement, ub)
       THEN Consulting(Result(FALSE, "generic", NoRef, g.ret, g.tw, g.alloc,
                              g.calls),
                       g, {"generic", "subst"})
       ELSE
         LET genericWitness == Deref(g.tw, g.ret)
             specializedType ==
               Subst(genericWitness.Replacement, substitutionMap, FALSE)
         IN IF Unchanged(specializedType, genericWitness)
            THEN Consulting(
                   Result(TRUE, "fast", FastPathReturn(conf, assocType, g.ret),
                          g.ret,
                          Store(g.tw, conf, assocType,
                                FastPathEntry(genericWitness, specializedType)),
                          g.alloc, g.calls),
                   g, {"generic", "subst"})
            ELSE
              LET archetype == genericWitness.Archetype
                  c == Gather(ConformsTo(archetype), specializedType, ub,
                              << >>, 0)
                  used == IF c.calls > 0 THEN {"generic", "subst", "oracle"}
                          ELSE {"generic", "subst"}
              IN IF ~c.ok
                 THEN Consulting(
                        Result(FALSE, "slow", NoRef, g.ret, g.tw, g.alloc,
                               g.calls + c.calls),
                        g, used)
                 ELSE Consulting(
                        Result(TRUE, "slow", SlotRef(conf, assocType), g.ret,
                               Store(g.tw, conf, assocType,
                                     SlowPathEntry(archetype, specializedType,
                                                   c.conformances, g.alloc)),
                               AllocAfter(c.conformances, g.alloc),
                               g.calls + c.calls),
                        g, used)

\* InheritedProtocolConformance::getTypeWitness forwards to the conformance
\* it inherits from
InheritedGetTypeWitness(conf, assocType, tw, alloc, ub) ==
  LET g == GetTypeWitness(GenericConformance(conf), assocType, tw, alloc, ub)
  IN Consulting(g, g, {"generic"})

\* ProtocolConformance::getTypeWitness
GetTypeWitness(conf, assocType, tw, alloc, ub) ==
  CASE DispatchTarget(KindOf(conf)) = "Normal" ->
         NormalGetTypeWitness(conf, assocType, tw, alloc)
    [] DispatchTarget(KindOf(conf)) = "Specialized" ->
         SpecializedGetTypeWitness(conf, assocType, tw, alloc, ub)
    [] DispatchTarget(KindOf(conf)) = "Inherited" ->
         InheritedGetTypeWitness(conf, assocType, tw, alloc, ub)

\* what a caller keeps of a specialized witness: the reference it first got
\* and the value it read through it
NotRetained == [ref |-> NoRef, sub |-> NoSubstitution]

\* first, after a query of conf that returned ret (when ok) and whose query
\* of the generic conformance returned gen
Retain(conf, assocType, ok, ret, gen, tw) ==
  [c \in Specializeds |-> [a \in AssocTypes |->
     IF a # assocType \/ first[c][a] # NotRetained THEN first[c][a]
     ELSE IF c = conf /\ ok THEN [ref |-> ret, sub |-> Deref(tw, ret)]
     ELSE IF conf \in Specializeds /\ c = GenericConformance(conf)
             /\ gen # NoRef
          THEN [ref |-> gen, sub |-> Deref(tw, gen)]
     ELSE first[c][a]]]

GetTypeWitnessCall(conf, assocType) ==
  /\ ~aborted
  /\ \E r \in { GetTypeWitness(conf, assocType, TypeWitnesses, nextAlloc, ub) :
                  ub \in UBChoices } :
          /\ r.alloc <= MaxAlloc
          /\ TypeWitnesses' = r.tw
          /\ nextAlloc' = r.alloc
          /\ aborted' = ~r.ok
          /\ last' = [Call("getTypeWitness", conf, assocType,
                           IF r.ok THEN "ok" ELSE "abort")
                        EXCEPT !.path = r.path, !.ret = r.ret, !.gen = r.gen,
                               !.calls = r.calls, !.used = r.used,
                               !.queries = r.queries]
          /\ first' = Retain(conf, assocType, r.ok, r.ret, r.gen, r.tw)
  /\ UNCHANGED <<State, Mapping, GenericSubstitutions, Refusals, typeSetOk,
                 valueSetOk, passed, hKind, hType, q, pc, loc, writes>>

(***************************************************************************)
(* getWitness                                                              *)
(***************************************************************************)
\* NormalProtocolConformance::getWitness: a lookup that asserts the key
NormalGetWitness(requirement) ==
  IF requirement \in DOMAIN Mapping
  THEN [ok |-> TRUE, wit |-> Mapping[requirement]]
  ELSE [ok |-> FALSE, wit |-> "null"]

RECURSIVE GetWitness(_, _)

\* a getWitness that applied a substitution to the generic witness
SpecializedGetWitnessSubstituted(conf, requirement) ==
  LET g == GetWitness(GenericConformance(conf), requirement)
  IN [g EXCEPT !.wit = IF g.ok THEN <<"subst", @>> ELSE @]

\* SpecializedProtocolConformance::getWitness
SpecializedGetWitness(conf, requirement) ==
  GetWitness(GenericConformance(conf), requirement)

InheritedGetWitness(conf, requirement) ==
  GetWitness(GenericConformance(conf), requirement)

\* ProtocolConformance::getWitness
GetWitness(conf, requirement) ==
  CASE DispatchTarget(KindOf(conf)) = "Normal" -> NormalGetWitness(requirement)
    [] DispatchTarget(KindOf(conf)) = "Specialized" ->
         SpecializedGetWitness(conf, requirement)
    [] DispatchTarget(KindOf(conf)) = "Inherited" ->
         InheritedGetWitness(conf, requirement)

GetWitnessCall(conf, requirement) ==
  /\ ~aborted
  /\ LET r == GetWitness(conf, requirement)
     IN /\ aborted' = ~r.ok
        /\ last' = [Call("getWitness", conf, requirement,
                         IF r.ok THEN "ok" ELSE "abort")
                      EXCEPT !.wit = r.wit]
  /\ UNCHANGED <<State, TypeWitnesses, Mapping, GenericSubstitutions, Refusals,
                 nextAlloc, typeSetOk, valueSetOk, passed, first, hKind, hType, q, pc,
                 loc, writes>>

(***************************************************************************)
(* The witness table and its specializations, used by one thread.          *)
(***************************************************************************)
NoQuery ==
  [op |-> "none", routed |-> "null", checked |-> "null", res |-> "ok",
   params |-> 0]

Idle == [r \in 1..NumReaders |-> "idle"]

NoLocal ==
  [assocType |-> "null", entry |-> NoSubstitution, ret |-> NoRef]

InitRest ==
  /\ hKind = "Normal"
  /\ hType = << >>
  /\ q = NoQuery
  /\ pc = Idle
  /\ loc = [r \in 1..NumReaders |-> NoLocal]
  /\ writes = [a \in AssocTypes |-> 0]

Init ==
  /\ State = "Incomplete"
  /\ TypeWitnesses = [c \in Confs |-> EmptyMap]
  /\ Mapping = EmptyMap
  /\ \E l1 \in SubstitutionLists, l2 \in OuterSubstitutionLists :
       GenericSubstitutions = [c \in Specializeds |-> IF c = "S1" THEN l1 ELSE l2]
  /\ Refusals \in OracleRefusals
  /\ nextAlloc = 0
  /\ aborted = FALSE
  /\ last = NoCall
  /\ typeSetOk = [a \in AssocTypes |-> 0]
  /\ valueSetOk = [d \in ValueDecls |-> 0]
  /\ passed = NothingPassed
  /\ first = [c \in Specializeds |-> [a \in AssocTypes |-> NotRetained]]
  /\ InitRest

Next ==
  \/ \E a \in AssocTypes, s \in SubstitutionInputs : SetTypeWitness(a, s)
  \/ \E d \in ValueDecls, w \in Witnesses : SetWitness(d, w)
  \/ MarkComplete
  \/ \E c \in Confs, a \in AssocTypes : GetTypeWitnessCall(c, a)
  \/ \E c \in Confs, d \in ValueDecls : GetWitnessCall(c, d)

Spec == Init /\ [][Next]_vars

(***************************************************************************)
(* ProtocolConformance::getGenericParams and the dispatch of the queries,  *)
(* on one handle of kind hKind whose conforming type is hType.  A type is  *)
(* the chain of its enclosing types, innermost first; the declaration of   *)
(* the type at depth d below the root is numbered d, and so is its generic *)
(* parameter list.                                                         *)
(***************************************************************************)
NominalLevel == [kind |-> "Nominal", declared |-> TRUE]

\* a bound generic type that is (or is not) its declaration's
\* getDeclaredTypeInContext()
BoundGenericLevels == {[kind |-> "BoundGeneric", declared |-> b] : b \in BOOLEAN}

\* a type that is neither nominal nor bound generic, with no enclosing type
OtherLevel == [kind |-> "Other", declared |-> TRUE]

TypeChains ==
  {<<OtherLevel>>} \cup
  UNION {[1..n -> {NominalLevel} \cup BoundGenericLevels] : n \in 1..MaxNest}

NoParams == 0

\* ty->getAs<NominalType>()
IsNominalType(ty) == Head(ty).kind = "Nominal"

\* ty->getAs<BoundGenericType>()
IsBoundGenericType(ty) == Head(ty).kind = "BoundGeneric"

\* nt->getParent(): the enclosing type, the null type at the root
GetParent(ty) == Tail(ty)

\* bgt->getDecl()->getGenericParams()
GenericParamsOfDecl(ty) == Len(ty)

WalkNoParents(ty) == ty

\* while (ty) { if nominal: ty = parent; else break; }
RECURSIVE WalkNominalParents(_)
WalkNominalParents(ty) ==
  IF ty = NullType THEN NullType
  ELSE IF IsNominalType(ty) THEN WalkNominalParents(GetParent(ty))
  ELSE ty

\* a getGenericParams that answers for the conforming type whatever the kind
GetGenericParamsOfType(kind, type) ==
  LET ty == WalkNominalParents(type)
  IN IF ty = NullType THEN [ok |-> TRUE, params |-> NoParams]
     ELSE IF IsBoundGenericType(ty)
          THEN IF Head(ty).declared
               THEN [ok |-> TRUE, params |-> GenericParamsOfDecl(ty)]
               ELSE [ok |-> FALSE, params |-> NoParams]
          ELSE [ok |-> TRUE, params |-> NoParams]

GetGenericParams(kind, type) ==
  CASE kind = "Normal" ->
         LET ty == WalkNominalParents(type)
         IN IF ty = NullType THEN [ok |-> TRUE, params |-> NoParams]
            ELSE IF IsBoundGenericType(ty)
                 THEN IF Head(ty).declared
                      THEN [ok |-> TRUE, params |-> GenericParamsOfDecl(ty)]
                      ELSE [ok |-> FALSE, params |-> NoParams]
                 ELSE [ok |-> TRUE, params |-> NoParams]
    [] kind \in {"Specialized", "Inherited"} ->
         [ok |-> TRUE, params |-> NoParams]

QueryFrame ==
  UNCHANGED <<State, TypeWitnesses, Mapping, GenericSubstitutions, Refusals,
              nextAlloc, last, typeSetOk, valueSetOk, passed, first, hKind, hType,
              pc, loc, writes>>

GetGenericParamsCall ==
  /\ ~aborted
  /\ LET r == GetGenericParams(hKind, hType)
     IN /\ q' = [op |-> "getGenericParams", routed |-> "null",
                 checked |-> "null", res |-> IF r.ok THEN "ok" ELSE "abort",
                 params |-> r.params]
        /\ aborted' = ~r.ok
  /\ QueryFrame

\* one of the seven queries that go through CONFORMANCE_SUBCLASS_DISPATCH
Dispatch(method) ==
  /\ ~aborted
  /\ q' = [op |-> method, routed |-> DispatchTarget(hKind),
           checked |-> StaticAssertClass(hKind), res |-> "ok",
           params |-> NoParams]
  /\ UNCHANGED aborted
  /\ QueryFrame

InitQuery ==
  /\ State = "Complete"
  /\ TypeWitnesses = [c \in Confs |-> EmptyMap]
  /\ Mapping = EmptyMap
  /\ GenericSubstitutions =
       [c \in Specializeds |-> CHOOSE l \in OuterSubstitutionLists : TRUE]
  /\ Refusals = {}
  /\ nextAlloc = 0
  /\ aborted = FALSE
  /\ last = NoCall
  /\ typeSetOk = [a \in AssocTypes |-> 0]
  /\ valueSetOk = [d \in ValueDecls |-> 0]
  /\ passed = NothingPassed
  /\ first = [c \in Specializeds |-> [a \in AssocTypes |-> NotRetained]]
  /\ hKind \in Kinds
  /\ hType \in TypeChains
  /\ q = NoQuery
  /\ pc = Idle
  /\ loc = [r \in 1..NumReaders |-> NoLocal]
  /\ writes = [a \in AssocTypes |-> 0]

NextQuery ==
  \/ GetGenericParamsCall
  \/ \E m \in Methods : Dispatch(m)

SpecQuery == InitQuery /\ [][NextQuery]_vars

(***************************************************************************)
(* Readers of the specialized conformance S1 that run getTypeWitness       *)
(* concurrently, with no synchronization, once N is complete.  A reader    *)
(* checks the cache and derives its entry, then stores it, then returns    *)
(* the reference to TypeWitnesses[assocType].                              *)
(***************************************************************************)
Readers == 1..NumReaders

\* what an unsynchronized store may leave in the map when it runs while
\* another reader is inside getTypeWitness
TornEntry ==
  [Archetype |-> "torn", Replacement |-> NullType, Conformance |-> EmptyArray]

InFlight(r) == pc[r] \in {"store", "return"}

ReaderFrame ==
  UNCHANGED <<State, Mapping, GenericSubstitutions, Refusals, last,
              typeSetOk, valueSetOk, passed, first, hKind, hType, q>>

\* the cache check, and on a miss the derivation of the entry
Lookup(r, assocType) ==
  /\ ~aborted
  /\ pc[r] = "idle"
  /\ IF IsKnown(TypeWitnesses, "S1", assocType)
     THEN /\ pc' = [pc EXCEPT ![r] = "done"]
          /\ loc' = [loc EXCEPT ![r] =
                       [assocType |-> assocType,
                        entry |-> TypeWitnesses["S1"][assocType],
                        ret |-> SlotRef("S1", assocType)]]
          /\ UNCHANGED <<nextAlloc, aborted>>
     ELSE \E res \in { SpecializedGetTypeWitness("S1", assocType,
                         TypeWitnesses, nextAlloc, ub) : ub \in UBChoices } :
            /\ res.alloc <= MaxAlloc
            /\ nextAlloc' = res.alloc
            /\ aborted' = ~res.ok
            /\ pc' = [pc EXCEPT ![r] = IF res.ok THEN "store" ELSE "idle"]
            /\ loc' = [loc EXCEPT ![r] =
                         [assocType |-> assocType,
                          entry |-> IF res.ok THEN res.tw["S1"][assocType]
                                    ELSE NoSubstitution,
                          ret |-> NoRef]]
  /\ UNCHANGED <<TypeWitnesses, writes>>
  /\ ReaderFrame

\* TypeWitnesses[assocType] = ...; a store that races with another reader is
\* a data race: it may store the entry, tear it, or crash
StoreEntry(r) ==
  /\ ~aborted
  /\ pc[r] = "store"
  /\ \E outcome \in IF \E o \in Readers \ {r} : InFlight(o)
                    THEN {"stored", "torn", "crash"} ELSE {"stored"} :
       /\ aborted' = (outcome = "crash")
       /\ TypeWitnesses' =
            CASE outcome = "stored" ->
                   Store(TypeWitnesses, "S1", loc[r].assocType, loc[r].entry)
              [] outcome = "torn" ->
                   Store(TypeWitnesses, "S1", loc[r].assocType, TornEntry)
              [] outcome = "crash" -> TypeWitnesses
       /\ writes' = IF outcome = "crash" THEN writes
                    ELSE [writes EXCEPT ![loc[r].assocType] = @ + 1]
  /\ pc' = [pc EXCEPT ![r] = "return"]
  /\ UNCHANGED <<nextAlloc, loc>>
  /\ ReaderFrame

\* return TypeWitnesses[assocType]
Return(r) ==
  /\ ~aborted
  /\ pc[r] = "return"
  /\ pc' = [pc EXCEPT ![r] = "done"]
  /\ loc' = [loc EXCEPT ![r].ret = SlotRef("S1", loc[r].assocType)]
  /\ UNCHANGED <<TypeWitnesses, nextAlloc, aborted, writes>>
  /\ ReaderFrame

InitRace ==
  /\ State = "Complete"
  /\ \E sa \in SubstitutionInputs, sb \in SubstitutionInputs :
       TypeWitnesses =
         [c \in Confs |->
            IF c = "N" THEN [a \in {"A", "B"} |-> IF a = "A" THEN sa ELSE sb]
            ELSE EmptyMap]
  /\ Mapping = EmptyMap
  /\ \E l1 \in SubstitutionLists, l2 \in OuterSubstitutionLists :
       GenericSubstitutions = [c \in Specializeds |-> IF c = "S1" THEN l1 ELSE l2]
  /\ Refusals \in OracleRefusals
  /\ nextAlloc = 0
  /\ aborted = FALSE
  /\ last = NoCall
  /\ typeSetOk = [a \in AssocTypes |-> IF a \in {"A", "B"} THEN 1 ELSE 0]
  /\ valueSetOk = [d \in ValueDecls |-> 0]
  /\ passed = [NothingPassed EXCEPT !.type = [a \in AssocTypes |->
                  IF a \in {"A", "B"} THEN TypeWitnesses["N"][a]
                  ELSE NoSubstitution]]
  /\ first = [c \in Specializeds |-> [a \in AssocTypes |-> NotRetained]]
  /\ InitRest

NextRace ==
  \/ \E r \in Readers, a \in {"A", "B"} : Lookup(r, a)
  \/ \E r \in Readers : StoreEntry(r)
  \/ \E r \in Readers : Return(r)

SpecRace == InitRace /\ [][NextRace]_vars

(***************************************************************************)
(* Properties of the witness table and of its specializations.             *)
(***************************************************************************)
Setters == {"setTypeWitness", "setWitness"}

Queried == last.op = "getTypeWitness" /\ last.conf \in Specializeds

Returned == Queried /\ last.res = "ok"

\* C1 (write-once): in every sequence of setter calls on the normal
\* conformance, at most one setTypeWitness call succeeds for an associated
\* type and at most one setWitness call succeeds for a requirement; a later
\* call for a recorded key fails, whatever value it carries.
C1_WriteOnce ==
  /\ \A a \in AssocTypes : typeSetOk[a] <= 1
  /\ \A d \in ValueDecls : valueSetOk[d] <= 1

\* a second setTypeWitness for a recorded key, carrying another value, failed
\* while the conformance was still Incomplete
C1_Witness ==
  /\ last.op = "setTypeWitness"
  /\ last.res = "abort"
  /\ State = "Incomplete"
  /\ typeSetOk[last.key] = 1
  /\ TypeWitnesses["N"][last.key] # last.sub

\* C2 (completion freeze): once the normal conformance is Complete, every
\* setter call fails, for every key, and no step changes either witness map.
C2_CompletionFreeze ==
  [][IsComplete =>
       /\ TypeWitnesses'["N"] = TypeWitnesses["N"]
       /\ Mapping' = Mapping
       /\ last'.op \in Setters => last'.res = "abort"
       /\ IsComplete']_vars

\* a setter call for a key of P that was never set failed after completion
C2_Witness ==
  /\ IsComplete
  /\ last.op = "setTypeWitness"
  /\ last.res = "abort"
  /\ DeclContextOf(last.key) = "P"
  /\ last.key \notin DOMAIN TypeWitnesses["N"]
  /\ "A" \in DOMAIN TypeWitnesses["N"]

\* C3 as stated (no-op substitution reuse): on the fast path the reference
\* returned is the one genericConformance.getTypeWitness returned.
C3_SameObject ==
  (Returned /\ last.path = "fast") => last.ret = last.gen

\* C3 as amended: on the fast path the reference returned is to the
\* specialized conformance's own cache entry, a distinct object holding a
\* copy of the generic witness with equal fields.
C3_CopyOfGeneric ==
  (Returned /\ last.path = "fast") =>
    /\ last.ret = SlotRef(last.conf, last.key)
    /\ last.ret # last.gen
    /\ Deref(TypeWitnesses, last.ret) = Deref(TypeWitnesses, last.gen)

\* the fast path returned a witness whose type mentions no parameter
C3_Witness ==
  /\ Returned
  /\ last.path = "fast"
  /\ last.conf = "S1"
  /\ Deref(TypeWitnesses, last.ret).Replacement = <<"Int">>

\* C4 (specialization idempotence): every successful getTypeWitness(A) on a
\* specialized conformance returns the reference its first call returned,
\* whatever queries of other associated types came in between, and that
\* reference still resolves to the cache entry for A, holding the value it
\* held when first returned.
C4_Idempotence ==
  /\ Returned => last.ret = first[last.conf][last.key].ref
  /\ \A c \in Specializeds, a \in AssocTypes :
       first[c][a] # NotRetained =>
         /\ first[c][a].ref = SlotRef(c, a)
         /\ a \in DOMAIN TypeWitnesses[c]
         /\ TypeWitnesses[c][a] = first[c][a].sub

\* a second query of A hit the cache after B was computed on the slow path
C4_Witness ==
  /\ Returned
  /\ last.path = "hit"
  /\ last.conf = "S1"
  /\ last.key = "A"
  /\ first["S1"]["B"] # NotRetained
  /\ first["S1"]["B"].sub.Conformance.Data > 0

\* the abstract parameter the generic witness's type mentions, and the
\* substitution list of conf omits it
OmitsParameter(conf, assocType) ==
  /\ assocType \in DOMAIN TypeWitnesses[GenericConformance(conf)]
  /\ LET ty == TypeWitnesses[GenericConformance(conf)][assocType].Replacement
     IN /\ ty # NullType
        /\ ty[Len(ty)] \in Params
        /\ ty[Len(ty)] \notin DOMAIN BuildSubstitutionMap(conf)

\* C5 (strict substitution failure): when the substitution list omits a
\* parameter the generic witness's type mentions, getTypeWitness fails and
\* records no entry for the associated type.
C5_StrictFailure ==
  (Queried /\ OmitsParameter(last.conf, last.key)) =>
    /\ last.res = "abort"
    /\ last.key \notin DOMAIN TypeWitnesses[last.conf]

AllProceed == [x \in {"subst", "lookup"} |-> "proceeds"]

\* C6 (nested-conformance derivation): on the slow path the cached
\* Substitution has the generic witness's archetype, the substituted type,
\* and one conformance per protocol of the archetype's conformsTo list, in
\* that order, each the one the module returned for (substituted type,
\* protocol).
C6_NestedConformances ==
  (Returned /\ last.path = "slow") =>
    LET e == Deref(TypeWitnesses, last.ret)
        g == Deref(TypeWitnesses, last.gen)
        protos == ConformsTo(g.Archetype)
    IN /\ e.Archetype = g.Archetype
       /\ e.Replacement # g.Replacement
       /\ e.Replacement =
            Subst(g.Replacement, BuildSubstitutionMap(last.conf), FALSE)
       /\ Len(e.Conformance.Elems) = Len(protos)
       /\ \A i \in 1..Len(protos) :
            e.Conformance.Elems[i] =
              LookupConformance(e.Replacement, protos[i], AllProceed).Pointer
       /\ last.calls >= Len(protos)

\* the slow path derived the conformances to Q and to R, in that order
C6_Witness ==
  /\ Returned
  /\ last.path = "slow"
  /\ LET e == Deref(TypeWitnesses, last.ret)
     IN /\ e.Replacement = <<"Arr", "Arr", "V">>
        /\ e.Conformance.Elems =
             << [Type |-> <<"Arr", "Arr", "V">>, Proto |-> "Q"],
                [Type |-> <<"Arr", "Arr", "V">>, Proto |-> "R"] >>

\* the module refuses a conformance the slow path of this query needs
Refused(conf, assocType) ==
  /\ assocType \in DOMAIN TypeWitnesses[GenericConformance(conf)]
  /\ LET g == TypeWitnesses[GenericConformance(conf)][assocType]
         ty == Subst(g.Replacement, BuildSubstitutionMap(conf), FALSE)
         protos == ConformsTo(g.Archetype)
     IN /\ ty # NullType
        /\ ty # g.Replacement
        /\ \E i \in 1..Len(protos) : <<ty, protos[i]>> \in Refusals

\* C7 (re-derivation failure is fatal): when the module answers that the
\* substituted type does not conform to a protocol the archetype requires,
\* the query aborts, and no Substitution for the associated type is cached
\* or returned.
C7_RefusalIsFatal ==
  (Queried /\ Refused(last.conf, last.key)) =>
    /\ last.res = "abort"
    /\ last.ret = NoRef
    /\ aborted
    /\ last.key \notin DOMAIN TypeWitnesses[last.conf]

\* a query aborted on the second protocol, after one successful lookup
C7_Witness ==
  /\ Queried
  /\ Refused(last.conf, last.key)
  /\ last.res = "abort"
  /\ last.path = "slow"
  /\ last.calls = 2

(***************************************************************************)
(* Properties of concurrent readers.                                       *)
(***************************************************************************)
\* C8 (single canonical instance under races): when readers race on
\* getTypeWitness(A) of one conformance while A is uncached, the cache entry
\* for A is written once, and the reference every reader got resolves to the
\* entry that reader derived or found: no later insertion overwrote it.
C8_SingleInstance ==
  /\ \A a \in AssocTypes : writes[a] <= 1
  /\ \A r \in Readers :
       pc[r] = "done" => Deref(TypeWitnesses, loc[r].ret) = loc[r].entry

(***************************************************************************)
(* Properties of getGenericParams and of the dispatch.                     *)
(***************************************************************************)
GenericParamsReturned ==
  q.op = "getGenericParams" /\ hKind = "Normal" /\ q.res = "ok"

\* the outermost enclosing type of the conforming type
Root == hType[Len(hType)]

\* C9 as stated (generic-parameter chain walk): for a normal conformance
\* getGenericParams returns the generic parameter list of the root of the
\* conforming type's chain of enclosing types if that root is a bound generic
\* type, and the empty list otherwise.
C9_RootParams ==
  GenericParamsReturned =>
    q.params = IF Root.kind = "BoundGeneric" THEN 1 ELSE NoParams

\* positions of the chain (1 is the conforming type) that hold a type which
\* is not a non-generic nominal type
NotNominal == {i \in 1..Len(hType) : hType[i].kind # "Nominal"}

\* C9 as amended: for a normal conformance getGenericParams follows the chain
\* of enclosing types through non-generic nominal types only; it returns the
\* generic parameter list of the first type of the chain that is not one, if
\* that type is a bound generic type equal to its declared type in context,
\* and the empty list if the chain ends first or that type is not bound
\* generic; for Outer<T>.Inner.Innermost it returns Outer's list.  It aborts
\* exactly when that type is a bound generic type other than its declared
\* type in context.
C9_FirstBoundGeneric ==
  (q.op = "getGenericParams" /\ hKind = "Normal") =>
    IF NotNominal = {} THEN q.res = "ok" /\ q.params = NoParams
    ELSE LET i == CHOOSE j \in NotNominal : \A k \in NotNominal : j <= k
         IN IF hType[i].kind = "BoundGeneric"
            THEN IF hType[i].declared
                 THEN q.res = "ok" /\ q.params = Len(hType) - i + 1
                 ELSE q.res = "abort"
            ELSE q.res = "ok" /\ q.params = NoParams

\* Outer<T>.Inner.Innermost: the list of Outer came back
C9_Witness ==
  /\ GenericParamsReturned
  /\ hType = <<NominalLevel, NominalLevel,
               [kind |-> "BoundGeneric", declared |-> TRUE]>>
  /\ q.params = 1

\* C10 (dispatch totality): each of the seven queries on a handle of kind K
\* is routed to variant K's implementation, and the build-time override check
\* made in the case for kind K is a check on variant K's implementation.
C10_DispatchTotality ==
  q.op \in Methods => (q.routed = hKind /\ q.checked = hKind)

(***************************************************************************)
(* Properties of the witness table: round trip, admission, lifecycle.      *)
(***************************************************************************)
\* C11 (set-then-get round trip): every getWitness(r) on the normal
\* conformance that returns gives the reference the one successful
\* setWitness(r, _) call was given, and every getTypeWitness(a) that returns
\* gives the substitution the one successful setTypeWitness(a, _) call was
\* given; the maps hold exactly what was given, so no later call changes
\* either result.
C11_RoundTrip ==
  /\ (last.op = "getWitness" /\ last.conf = "N" /\ last.res = "ok") =>
        /\ valueSetOk[last.key] = 1
        /\ last.wit = passed.value[last.key]
  /\ (last.op = "getTypeWitness" /\ last.conf = "N" /\ last.res = "ok") =>
        /\ typeSetOk[last.key] = 1
        /\ Deref(TypeWitnesses, last.ret) = passed.type[last.key]
  /\ \A d \in ValueDecls :
       IF passed.value[d] = "null" THEN d \notin DOMAIN Mapping
       ELSE d \in DOMAIN Mapping /\ Mapping[d] = passed.value[d]
  /\ \A a \in AssocTypes :
       IF passed.type[a] = NoSubstitution THEN a \notin DOMAIN TypeWitnesses["N"]
       ELSE /\ a \in DOMAIN TypeWitnesses["N"]
            /\ TypeWitnesses["N"][a] = passed.type[a]

\* after completion, getWitness(r1) returned the witness w2 that was set
\* while a type witness for A was on record too
C11_Witness ==
  /\ IsComplete
  /\ last.op = "getWitness"
  /\ last.conf = "N"
  /\ last.res = "ok"
  /\ last.key = "r1"
  /\ last.wit = "w2"
  /\ passed.value["r1"] = "w2"
  /\ passed.type["A"] # NoSubstitution

\* the declarations that belong to the interface the conformance is for
BelongsToInterface(decl) == DeclContextOf(decl) = "P"

\* C12 (key admission): setTypeWitness fails for an associated type of
\* another interface; setWitness fails for a requirement of another
\* interface and for an associated-type declaration.  So every key of either
\* map of the normal conformance belongs to its interface, and no key of the
\* value-witness map is an associated-type declaration.
C12_KeyAdmission ==
  /\ (last.op = "setTypeWitness" /\ ~BelongsToInterface(last.key)) =>
        last.res = "abort"
  /\ (last.op = "setWitness"
        /\ (~BelongsToInterface(last.key) \/ last.key \in AssocTypes)) =>
        last.res = "abort"
  /\ \A a \in DOMAIN TypeWitnesses["N"] : BelongsToInterface(a)
  /\ \A d \in DOMAIN Mapping :
       BelongsToInterface(d) /\ d \notin AssocTypes

\* setWitness was called with the associated type A of the interface while
\* the conformance was Incomplete and r1 was on record: it failed
C12_Witness ==
  /\ last.op = "setWitness"
  /\ last.key = "A"
  /\ last.res = "abort"
  /\ State = "Incomplete"
  /\ DOMAIN Mapping = {"r1"}
  /\ "X" \notin DOMAIN TypeWitnesses["N"]

\* C13 (lifecycle): the normal conformance starts Incomplete; the only
\* change of its state is the one step from Incomplete to Complete, so it
\* becomes Complete at most once and is never Incomplete again; a setter
\* call succeeds only in a state where the conformance is Incomplete.
C13_Lifecycle ==
  /\ State = "Incomplete"
  /\ [][(State # State' =>
            (State = "Incomplete" /\ State' = "Complete"
               /\ last'.op = "markComplete"))
         /\ (State = "Complete" => State' = "Complete")
         /\ ((last'.op \in Setters /\ last'.res = "ok") =>
               (State = "Incomplete" /\ State' = "Incomplete"))]_vars

\* the conformance was marked complete after both a type witness and a
\* value witness were recorded
C13_Witness ==
  /\ last.op = "markComplete"
  /\ State = "Complete"
  /\ typeSetOk["A"] = 1
  /\ valueSetOk["r1"] = 1

(***************************************************************************)
(* Properties of the cache of a specialized conformance, used by one       *)
(* thread.                                                                 *)
(***************************************************************************)
\* C14 (cache monotonicity): the type-witness cache of a specialized
\* conformance starts empty and changes only in a getTypeWitness query, which
\* adds the key queried; no step removes a key or changes the value stored
\* under a key.
C14_CacheMonotonicity ==
  /\ \A c \in Specializeds : TypeWitnesses[c] = EmptyMap
  /\ [][\A c \in Specializeds :
          /\ \A a \in DOMAIN TypeWitnesses[c] :
               /\ a \in DOMAIN TypeWitnesses'[c]
               /\ TypeWitnesses'[c][a] = TypeWitnesses[c][a]
          /\ (TypeWitnesses'[c] # TypeWitnesses[c]) =>
               /\ last'.op = "getTypeWitness"
               /\ last'.conf \in Specializeds
               /\ DOMAIN TypeWitnesses'[c] =
                    DOMAIN TypeWitnesses[c] \cup {last'.key}]_vars

\* a query computed the entry for one associated type while the entry for
\* the other was already cached
C14_Witness ==
  /\ Returned
  /\ last.conf = "S1"
  /\ last.path = "slow"
  /\ DOMAIN TypeWitnesses["S1"] = {"A", "B"}
  /\ DOMAIN TypeWitnesses["S2"] = {}

(***************************************************************************)
(* Properties of failing setter calls.                                     *)
(***************************************************************************)
\* a setTypeWitness call for this key violates a precondition in this state
TypeSetterViolation(key) ==
  \/ ~BelongsToInterface(key)
  \/ key \in DOMAIN TypeWitnesses["N"]
  \/ State = "Complete"

\* a setWitness call for this key violates a precondition in this state
ValueSetterViolation(key) ==
  \/ ~BelongsToInterface(key)
  \/ key \in DOMAIN Mapping
  \/ State = "Complete"
  \/ key \in AssocTypes

\* C15 (failed setters do not corrupt the table): a setter call that
\* violates a precondition (wrong interface, key already set, conformance
\* Complete, associated-type key passed to setWitness) fails, and leaves both
\* witness maps and the state of the conformance as they were, so the
\* witness first recorded for a key is never replaced.
C15_FailedSetters ==
  [][((last'.op = "setTypeWitness" /\ TypeSetterViolation(last'.key))
       \/ (last'.op = "setWitness" /\ ValueSetterViolation(last'.key))) =>
       (/\ last'.res = "abort"
        /\ aborted'
        /\ TypeWitnesses' = TypeWitnesses
        /\ Mapping' = Mapping
        /\ State' = State
        /\ passed' = passed)]_vars

\* setWitness(r1, w2) failed on an Incomplete conformance that holds w1 for
\* r1, and w1 is still there
C15_Witness ==
  /\ last.op = "setWitness"
  /\ last.res = "abort"
  /\ last.key = "r1"
  /\ last.wit = "w2"
  /\ State = "Incomplete"
  /\ Mapping["r1"] = "w1"
  /\ passed.value["r1"] = "w1"

(***************************************************************************)
(* Properties of the paths of a type-witness query.                        *)
(***************************************************************************)
\* C16 (oracle use only on the slow path): a getTypeWitness(A) query of a
\* specialized conformance looks up conformances in the module only when A
\* was not cached and the substituted type is not the generic witness's
\* replacement type; when A was cached it consults neither the module, nor
\* the substitution engine, nor the generic conformance; on the fast path it
\* makes no lookup in the module.
C16_OracleOnSlowPath ==
  [][(last'.op = "getTypeWitness" /\ last'.conf \in Specializeds) =>
       (/\ last'.key \in DOMAIN TypeWitnesses[last'.conf] =>
             (/\ last'.used = {}
              /\ last'.calls = 0
              /\ last'.queries = 1
              /\ last'.gen = NoRef)
        /\ "oracle" \in last'.used =>
             (/\ last'.key \notin DOMAIN TypeWitnesses[last'.conf]
              /\ last'.gen # NoRef
              /\ LET ty == Deref(TypeWitnesses', last'.gen).Replacement
                 IN Subst(ty, BuildSubstitutionMap(last'.conf), FALSE) # ty)
        /\ last'.path = "fast" => "oracle" \notin last'.used)]_vars

\* a query took the fast path for a witness whose archetype requires a
\* protocol, and made no lookup in the module
C16_Witness ==
  /\ Returned
  /\ last.conf = "S1"
  /\ last.path = "fast"
  /\ last.used = {"generic", "subst"}
  /\ ConformsTo(Deref(TypeWitnesses, last.ret).Archetype) = <<"Q">>

\* the conformances from conf down to the normal conformance, conf included
Depth(conf) ==
  CASE conf = "N" -> 1
    [] conf = "S1" -> 2
    [] conf = "S2" -> 3

\* the specialized conformances a query of conf passes through
Layers(conf) ==
  CASE conf = "N" -> {}
    [] conf = "S1" -> {"S1"}
    [] conf = "S2" -> {"S1", "S2"}

ChainQueried ==
  /\ last.op = "getTypeWitness"
  /\ last.key \in DOMAIN TypeWitnesses["N"]

\* C17 as stated (termination of specialization): on a chain of specialized
\* conformances over a normal conformance that has a witness for A,
\* getTypeWitness(A) on the outermost conformance finishes after at most one
\* recursive query per layer and returns a witness.
C17_ReturnsWitness ==
  ChainQueried =>
    /\ last.queries <= Depth(last.conf)
    /\ last.res = "ok"

\* strict substitution at this layer met or produced the null type
NullTypeReached(conf, assocType) ==
  /\ assocType \in DOMAIN TypeWitnesses[GenericConformance(conf)]
  /\ LET g == TypeWitnesses[GenericConformance(conf)][assocType]
     IN Subst(g.Replacement, BuildSubstitutionMap(conf), FALSE) = NullType

\* C17 as amended: on such a chain the query finishes after at most one
\* recursive query per layer; it returns a reference to the outermost
\* conformance's cache entry for A, unless the process is aborted at some
\* layer: by the assertion on a conformance the module refuses, or by a
\* dereference of the null type that strict substitution produced.
C17_FinishesPerLayer ==
  ChainQueried =>
    /\ last.queries <= Depth(last.conf)
    /\ last.res = "ok" =>
         /\ last.key \in DOMAIN TypeWitnesses[last.conf]
         /\ last.ret = SlotRef(last.conf, last.key)
    /\ last.res = "abort" =>
         /\ aborted
         /\ \E c \in Layers(last.conf) :
              Refused(c, last.key) \/ NullTypeReached(c, last.key)

\* a query of S2 on an unqueried chain made one query of S1 and one of N,
\* and returned
C17_Witness ==
  /\ ChainQueried
  /\ last.conf = "S2"
  /\ last.res = "ok"
  /\ last.queries = 3
  /\ last.path = "slow"

(***************************************************************************)
(* Properties of getWitness on a specialized conformance.                  *)
(***************************************************************************)
\* C18 (value-witness pass-through): getWitness(r) on a specialized
\* conformance gives what getWitness(r) on its generic conformance gives,
\* down to the normal conformance: the recorded reference, with no
\* substitution applied, or a failure when none is recorded; the call
\* changes no cache and no substitution list.
C18_PassThrough ==
  [][(last'.op = "getWitness" /\ last'.conf \in Specializeds) =>
       (/\ IF last'.key \in DOMAIN Mapping
           THEN last'.res = "ok" /\ last'.wit = Mapping[last'.key]
           ELSE last'.res = "abort"
        /\ LET g == GetWitness(GenericConformance(last'.conf), last'.key)
           IN (last'.res = "ok") = g.ok /\ last'.wit = g.wit
        /\ TypeWitnesses' = TypeWitnesses
        /\ GenericSubstitutions' = GenericSubstitutions
        /\ Mapping' = Mapping
        /\ State' = State
        /\ nextAlloc' = nextAlloc)]_vars

\* getWitness(r1) on S2 returned the reference recorded in N, while the
\* caches of S1 and S2 held specialized type witnesses
C18_Witness ==
  /\ last.op = "getWitness"
  /\ last.conf = "S2"
  /\ last.res = "ok"
  /\ last.key = "r1"
  /\ last.wit = passed.value["r1"]
  /\ "A" \in DOMAIN TypeWitnesses["S2"]
  /\ TypeWitnesses["S2"]["A"] # TypeWitnesses["N"]["A"]

(***************************************************************************)
(* Properties of getGenericParams on derived conformances.                 *)
(***************************************************************************)
\* C19: getGenericParams returns the empty list for every specialized and
\* every inherited conformance, whatever its conforming type is, also when
\* a normal conformance of that type returns a parameter list or fails.
C19_DerivedHaveNoParams ==
  (q.op = "getGenericParams" /\ hKind \in {"Specialized", "Inherited"}) =>
    /\ q.res = "ok"
    /\ q.params = NoParams
    /\ ~aborted

\* a specialized conformance of Outer<T>.Inner returned the empty list, where
\* a normal conformance returns the list of Outer
C19_Witness ==
  /\ q.op = "getGenericParams"
  /\ hKind = "Specialized"
  /\ hType = <<NominalLevel, [kind |-> "BoundGeneric", declared |-> TRUE]>>
  /\ q.params = NoParams
  /\ GetGenericParams("Normal", hType).params # NoParams

(***************************************************************************)
(* What a type-witness query leaves alone.                                 *)
(***************************************************************************)
\* C20 (frame of a type-witness query): a getTypeWitness(A) query of a
\* specialized conformance that returns, made when A is not in its cache,
\* adds the key A and no other to that cache and leaves the other entries
\* and every substitution list as they were; no query changes the witness
\* maps or the state of the normal conformance.
C20_QueryFrame ==
  [][(last'.op = "getTypeWitness" /\ last'.conf \in Specializeds) =>
       (/\ (last'.res = "ok"
             /\ last'.key \notin DOMAIN TypeWitnesses[last'.conf]) =>
               (/\ DOMAIN TypeWitnesses'[last'.conf] =
                     DOMAIN TypeWitnesses[last'.conf] \cup {last'.key}
                /\ \A a \in DOMAIN TypeWitnesses[last'.conf] :
                     TypeWitnesses'[last'.conf][a] =
                       TypeWitnesses[last'.conf][a])
        /\ GenericSubstitutions' = GenericSubstitutions
        /\ TypeWitnesses'["N"] = TypeWitnesses["N"]
        /\ Mapping' = Mapping
        /\ State' = State)]_vars

\* a query of S1 computed the entry for B on the slow path while the entry
\* for A was cached, before N was complete
C20_Witness ==
  /\ Returned
  /\ last.conf = "S1"
  /\ last.key = "B"
  /\ last.path = "slow"
  /\ last.queries = 2
  /\ "A" \in DOMAIN TypeWitnesses["S1"]
  /\ State = "Incomplete"

=============================================================================
